---- MODULE Spec2Model ----
\* Model of toscaparser/tosca_template.py: ToscaTemplate.__init__ and the
\* methods it calls (field validation, import resolution, custom-type merge).
EXTENDS Naturals, Sequences, FiniteSets

\* ------------------------------------------------------------------ bounds
MaxImports == 2      \* longest "imports" list of the root template
MaxKeys == 3         \* most top-level keys before the section keys
MaxFsChanges == 1    \* file-system changes by the environment during a load

\* ---------------------------------------------------- template key names
DEFINITION_VERSION == "tosca_definitions_version"
DESCRIPTION == "description"
IMPORTS == "imports"
NODE_TYPES == "node_types"
RELATIONSHIP_TYPES == "relationship_types"
CAPABILITY_TYPES == "capability_types"
ARTIFACT_TYPES == "artifact_types"
DATATYPE_DEFINITIONS == "datatype_definitions"

SECTIONS ==
    { DEFINITION_VERSION, "tosca_default_namespace", "template_name",
      "topology_template", "template_author", "template_version",
      DESCRIPTION, IMPORTS, "dsl_definitions", NODE_TYPES,
      RELATIONSHIP_TYPES, "relationship_templates",
      CAPABILITY_TYPES, ARTIFACT_TYPES, DATATYPE_DEFINITIONS }

VALID_TEMPLATE_VERSIONS == { "tosca_simple_yaml_1_0" }

\* The five type sections a document may hold, in the order they are written
\* in the modelled documents.
TypeSections ==
    << NODE_TYPES, RELATIONSHIP_TYPES, CAPABILITY_TYPES, ARTIFACT_TYPES,
       DATATYPE_DEFINITIONS >>

TypeSectionSet == { TypeSections[i] : i \in 1..Len(TypeSections) }

\* ----------------------------------------------------- the input universe
\* Import strings: a URL, a relative path, an absolute path.
URL_REF == "http://host/types.yaml"
REL_REF == "types.yaml"
ABS_REF == "/etc/types.yaml"
Refs == { URL_REF, REL_REF, ABS_REF }

\* Type names used by the documents.
Names == { "X", "Y", "Z" }

\* Locations handed to os.path.isfile and to the loader: a string as given, a
\* string joined to the root's directory, a string joined to the root's URL.
AsGiven(s) == << "as_given", s >>
RootPath == AsGiven("root")

\* UrlUtils.validate_url
validate_url(s) == s = URL_REF

\* UrlUtils.join_url(self.path, definition)
join_url(s) == << "url_join", s >>

\* os.path.isabs
isabs(s) == s = ABS_REF

\* os.path.join(os.path.dirname(os.path.abspath(self.path)), definition):
\* an absolute second component discards the first.
full_path(s) == IF isabs(s) THEN AsGiven(s) ELSE << "path_join", s >>

\* The paths that may exist as regular files.
FsPaths == { RootPath, AsGiven(REL_REF), AsGiven(ABS_REF), full_path(REL_REF) }

\* A registry maps every name to its definition, or to NoDef when the name is
\* not a key of the mapping.
NoDef == [ doc |-> << "none", "none" >>, local |-> FALSE, section |-> "none", name |-> "none" ]
EmptyDefs == [ n \in Names |-> NoDef ]
Keys(d) == { n \in Names : d[n] # NoDef }

\* dict.update: the entries of d2 overwrite those of d1.
Update(d1, d2) == [ n \in Names |-> IF d2[n] # NoDef THEN d2[n] ELSE d1[n] ]

\* What the documents behind the import locations define, per section.
DocTable(def_file, a_file, section) ==
    CASE def_file = AsGiven(URL_REF) /\ ~a_file ->
           CASE section = NODE_TYPES -> { "X" }
             [] section = CAPABILITY_TYPES -> { "X" }
             [] section = ARTIFACT_TYPES -> { "Z" }
             [] section = DATATYPE_DEFINITIONS -> { "Y" }
             [] OTHER -> {}
      [] def_file = AsGiven(REL_REF) /\ a_file ->
           CASE section = NODE_TYPES -> { "X", "Y" }
             [] section = RELATIONSHIP_TYPES -> { "X" }
             [] section = ARTIFACT_TYPES -> { "X" }
             [] OTHER -> {}
      [] def_file = full_path(REL_REF) /\ a_file ->
           CASE section = NODE_TYPES -> { "Y" }
             [] section = CAPABILITY_TYPES -> { "Y" }
             [] section = RELATIONSHIP_TYPES -> { "X", "Y" }
             [] section = DATATYPE_DEFINITIONS -> { "X" }
             [] OTHER -> {}
      [] def_file = AsGiven(ABS_REF) /\ a_file ->
           CASE section = CAPABILITY_TYPES -> { "X" }
             [] section = RELATIONSHIP_TYPES -> { "Y" }
             [] section = ARTIFACT_TYPES -> { "Z" }
             [] section = DATATYPE_DEFINITIONS -> { "X" }
             [] OTHER -> {}
      [] def_file = join_url(REL_REF) /\ ~a_file ->
           CASE section = NODE_TYPES -> { "X" }
             [] section = CAPABILITY_TYPES -> { "Y" }
             [] section = RELATIONSHIP_TYPES -> { "X" }
             [] OTHER -> {}
      [] def_file = AsGiven(REL_REF) /\ ~a_file ->
           CASE section = NODE_TYPES -> { "Y" }
             [] section = RELATIONSHIP_TYPES -> { "Y" }
             [] OTHER -> {}
      [] OTHER ->
           CASE section = CAPABILITY_TYPES -> { "X" }
             [] section = DATATYPE_DEFINITIONS -> { "Y" }
             [] OTHER -> {}

\* A definition is identified by the document, the section and the name it
\* was written under.
Def(def_file, a_file, section, n) ==
    [ doc |-> def_file, local |-> a_file, section |-> section, name |-> n ]

\* YAML_LOADER(def_file, a_file) of an import that parses: the document, as a
\* mapping from section to registry.
YAML_LOADER(def_file, a_file) ==
    [ s \in TypeSectionSet |->
        [ n \in Names |->
            IF n \in DocTable(def_file, a_file, s)
            THEN Def(def_file, a_file, s, n) ELSE NoDef ] ]

\* The inline type sections a root document may hold.
RootTypeChoices ==
    { [ s \in TypeSectionSet |-> {} ],
      [ s \in TypeSectionSet |-> IF s = NODE_TYPES THEN { "X" } ELSE {} ],
      [ s \in TypeSectionSet |->
          IF s = RELATIONSHIP_TYPES THEN { "X" }
          ELSE IF s = DATATYPE_DEFINITIONS THEN { "Y" } ELSE {} ],
      [ s \in TypeSectionSet |->
          IF s = CAPABILITY_TYPES THEN { "Y" }
          ELSE IF s = ARTIFACT_TYPES THEN { "X", "Z" } ELSE {} ] }

\* Sequences without repetition over S, of length at most n.
InjSeqs(S, n) ==
    { q \in UNION { [1..k -> S] : k \in 0..n } :
        \A i, j \in 1..Len(q) : i # j => q[i] # q[j] }

KeyPool == { DEFINITION_VERSION, DESCRIPTION, "unknown_a", "unknown_b" }
KeyOrders == InjSeqs(KeyPool, MaxKeys)
Versions == { "tosca_simple_yaml_1_0", "tosca_simple_yaml_9_9" }

ImportLists == UNION { [1..n -> Refs] : n \in 0..MaxImports }

\* ------------------------------------------------------------------ state
VARIABLES
    path_is_file,    \* a_file argument of __init__
    files,           \* the paths that are regular files now
    fsChanges,       \* changes the environment made to files so far
    tplKeys,         \* top-level keys of the root document before its sections
    tplVersion,      \* value under the version key, when the key is present
    tplImports,      \* the root document's import list
    tplTypes,        \* names the root document defines inline, per section
    pc,              \* position of __init__
    error,           \* the exception that ended the load
    steps,           \* the steps of __init__ that returned, in order
    version,         \* self.version
    relationship_types,  \* self.relationship_types
    typeIdx,         \* position of the loop of _get_all_custom_defs
    all_custom_defs, \* custom_defs of _get_all_custom_defs
    type_defs,       \* custom_def of each iteration of _get_all_custom_defs
    loaderCalls,     \* YAML_LOADER calls made for imports, in order
    localities,      \* main_a_file of each _get_custom_types call that read it
    load,            \* "first" or "second" construction on the same input
    first_defs       \* aggregate registry the first construction passed on

vars ==
    << path_is_file, files, fsChanges, tplKeys, tplVersion, tplImports,
       tplTypes, pc, error, steps, version, relationship_types, typeIdx,
       all_custom_defs, type_defs, loaderCalls, localities, load, first_defs >>

input == << path_is_file, tplKeys, tplVersion, tplImports, tplTypes >>

\* An exception: its class, the field, value or import it names and, for
\* InvalidTemplateVersion, the valid versions it lists.
Exception(kind, what) == [ kind |-> kind, what |-> what, valid_versions |-> {} ]
NoError == Exception("none", "")
\* Mutant: the list is shared by the constructions and reversed in place by
\* each, so the second construction merges in the opposite order.
types_reversed_on_reload ==
    IF load = "first"
    THEN << NODE_TYPES, CAPABILITY_TYPES, RELATIONSHIP_TYPES, DATATYPE_DEFINITIONS >>
    ELSE << DATATYPE_DEFINITIONS, RELATIONSHIP_TYPES, CAPABILITY_TYPES, NODE_TYPES >>

\* Mutant: relationship types are merged before capability types.
types_swapped ==
    << NODE_TYPES, RELATIONSHIP_TYPES, CAPABILITY_TYPES, DATATYPE_DEFINITIONS >>

\* types of _get_all_custom_defs, in its order
types == << NODE_TYPES, CAPABILITY_TYPES, RELATIONSHIP_TYPES, DATATYPE_DEFINITIONS >>

NoTypeDefs == [ t \in { types[i] : i \in 1..Len(types) } |-> EmptyDefs ]

\* os.path.isfile
isfile(p) == p \in files

\* self.tpl.get(type_definition) of the root document
TplSection(type_definition) ==
    [ n \in Names |->
        IF n \in tplTypes[type_definition]
        THEN Def(RootPath, path_is_file, type_definition, n) ELSE NoDef ]

\* The root document's keys in document order: the leading keys, the import
\* list when there is one, the type sections that are present.
RECURSIVE PresentSections(_)
PresentSections(i) ==
    IF i > Len(TypeSections) THEN << >>
    ELSE (IF tplTypes[TypeSections[i]] # {} THEN << TypeSections[i] >> ELSE << >>)
         \o PresentSections(i + 1)

TplNames ==
    tplKeys \o (IF tplImports # << >> THEN << IMPORTS >> ELSE << >>)
            \o PresentSections(1)

HasKey(k) == \E i \in 1..Len(TplNames) : TplNames[i] = k

\* ------------------------------------------------------- field validation
\* Mutant: the loop runs to its end and the last unknown name is reported.
UnknownFieldCheck_last(names, i) ==
    LET unknown == { j \in i..Len(names) : names[j] \notin SECTIONS }
    IN IF unknown = {} THEN NoError
       ELSE Exception("UnknownFieldError",
                      names[CHOOSE j \in unknown : \A k \in unknown : k <= j])

\* The first name of the sequence that is no section name, as an error.
RECURSIVE UnknownFieldCheck(_, _)
UnknownFieldCheck(names, i) ==
    IF i > Len(names) THEN NoError
    ELSE IF names[i] \notin SECTIONS
         THEN Exception("UnknownFieldError", names[i])
         ELSE UnknownFieldCheck(names, i + 1)

\* _validate_version
ValidateVersion(v) ==
    IF v \notin VALID_TEMPLATE_VERSIONS
    THEN [ kind |-> "InvalidTemplateVersion", what |-> v,
           valid_versions |-> VALID_TEMPLATE_VERSIONS ]
    ELSE NoError

\* Mutant: the loop over the keys runs before the version check.
ValidateFieldResult_keys_first(names, v) ==
    IF UnknownFieldCheck(names, 1) # NoError THEN UnknownFieldCheck(names, 1)
    ELSE IF ~(\E i \in 1..Len(names) : names[i] = DEFINITION_VERSION)
    THEN Exception("MissingRequiredFieldError", DEFINITION_VERSION)
    ELSE ValidateVersion(v)

\* _validate_field: the exception it raises, or NoError
ValidateFieldResult(names, v) ==
    IF ~(\E i \in 1..Len(names) : names[i] = DEFINITION_VERSION)
    THEN Exception("MissingRequiredFieldError", DEFINITION_VERSION)
    ELSE IF ValidateVersion(v) # NoError THEN ValidateVersion(v)
    ELSE UnknownFieldCheck(names, 1)

\* ------------------------------------------------------ import resolution
\* The body of the loop of _get_custom_types up to the loader call: the
\* location and the flag handed to YAML_LOADER, or the ImportError.
Resolve(main_a_file, definition) ==
    IF main_a_file
    THEN IF isfile(AsGiven(definition))
         THEN [ raises |-> FALSE, def_file |-> AsGiven(definition), a_file |-> TRUE ]
         ELSE IF isfile(full_path(definition))
              THEN [ raises |-> FALSE, def_file |-> full_path(definition), a_file |-> TRUE ]
              ELSE [ raises |-> FALSE, def_file |-> AsGiven(definition), a_file |-> FALSE ]
    ELSE IF ~validate_url(definition)
         THEN IF isabs(definition)
              THEN [ raises |-> TRUE, def_file |-> AsGiven(definition), a_file |-> FALSE ]
              ELSE [ raises |-> FALSE, def_file |-> join_url(definition), a_file |-> FALSE ]
         ELSE [ raises |-> FALSE, def_file |-> AsGiven(definition), a_file |-> FALSE ]

\* Mutant: an import does not overwrite what an earlier import defined.
MergeOuter_keep_first(custom_defs, outer_custom_types) ==
    Update(outer_custom_types, custom_defs)

\* custom_defs.update(outer_custom_types), when the section is not empty
MergeOuter(custom_defs, outer_custom_types) ==
    IF Keys(outer_custom_types) # {} THEN Update(custom_defs, outer_custom_types)
    ELSE custom_defs

\* custom_defs.update(inner_custom_types), when the section is not empty
MergeInner(custom_defs, inner_custom_types) ==
    IF Keys(inner_custom_types) # {} THEN Update(custom_defs, inner_custom_types)
    ELSE custom_defs

\* The loop over the imports from the i-th on; the loader raises on the
\* failAt-th import (on none when failAt = 0).
RECURSIVE ImportLoop(_, _, _, _, _)
ImportLoop(custom_defs, i, main_a_file, type_definition, failAt) ==
    IF i > Len(tplImports)
    THEN [ custom_defs |-> custom_defs, calls |-> << >>, error |-> NoError ]
    ELSE LET definition == tplImports[i]
             r == Resolve(main_a_file, definition)
             call == [ type |-> type_definition, idx |-> i,
                       definition |-> definition, def_file |-> r.def_file,
                       a_file |-> r.a_file, main_a_file |-> main_a_file ]
         IN IF r.raises
            THEN [ custom_defs |-> custom_defs, calls |-> << >>,
                   error |-> Exception("ImportError", definition) ]
            ELSE IF failAt = i
            THEN [ custom_defs |-> custom_defs, calls |-> << call >>,
                   error |-> Exception("ParseError", definition) ]
            ELSE LET custom_type == YAML_LOADER(r.def_file, r.a_file)
                     rest == ImportLoop(
                                 MergeOuter(custom_defs, custom_type[type_definition]),
                                 i + 1, main_a_file, type_definition, failAt)
                 IN [ rest EXCEPT !.calls = << call >> \o @ ]

\* _get_custom_types: the registry it returns, the loader calls it made and
\* the exception it raised, if any.
GetCustomTypes(type_definition, failAt) ==
    LET main_a_file == isfile(RootPath)
        looped == ImportLoop(EmptyDefs, 1, main_a_file, type_definition, failAt)
    IN [ custom_defs |->
            MergeInner(looped.custom_defs, TplSection(type_definition)),
         calls |-> looped.calls,
         error |-> looped.error,
         localities |-> IF tplImports # << >> THEN << main_a_file >> ELSE << >> ]

\* ---------------------------------------------------------------- actions
Raise(e) ==
    /\ pc' = "failed"
    /\ error' = e

Return(step, next) ==
    /\ pc' = next
    /\ steps' = Append(steps, step)
    /\ error' = error

\* self.tpl = YAML_LOADER(path, a_file)
LoadRoot ==
    /\ pc = "load_root"
    /\ \E parses \in BOOLEAN :
         IF parses THEN Return("load_root", "validate_field")
         ELSE Raise(Exception("ParseError", "root")) /\ UNCHANGED steps
    /\ UNCHANGED << input, files, fsChanges, version, relationship_types,
                    typeIdx, all_custom_defs, type_defs, loaderCalls,
                    localities, load, first_defs >>

\* self._validate_field()
ValidateField ==
    /\ pc = "validate_field"
    /\ LET e == ValidateFieldResult(TplNames, tplVersion)
       IN IF e = NoError THEN Return("validate_field", "tpl_version")
          ELSE Raise(e) /\ UNCHANGED steps
    /\ UNCHANGED << input, files, fsChanges, version, relationship_types,
                    typeIdx, all_custom_defs, type_defs, loaderCalls,
                    localities, load, first_defs >>

\* self.version = self._tpl_version()
TplVersion ==
    /\ pc = "tpl_version"
    /\ version' = tplVersion
    /\ Return("tpl_version", "tpl_relationship_types")
    /\ UNCHANGED << input, files, fsChanges, relationship_types,
                    typeIdx, all_custom_defs, type_defs, loaderCalls,
                    localities, load, first_defs >>

\* self.relationship_types = self._tpl_relationship_types()
TplRelationshipTypes ==
    /\ pc = "tpl_relationship_types"
    /\ \E failAt \in 0..Len(tplImports) :
         LET r == GetCustomTypes(RELATIONSHIP_TYPES, failAt)
         IN /\ loaderCalls' = loaderCalls \o r.calls
            /\ localities' = localities \o r.localities
            /\ IF r.error = NoError
               THEN /\ relationship_types' = r.custom_defs
                    /\ Return("tpl_relationship_types", "tpl_description")
               ELSE /\ Raise(r.error)
                    /\ UNCHANGED << steps, relationship_types >>
    /\ UNCHANGED << input, files, fsChanges, version, typeIdx,
                    all_custom_defs, type_defs, load, first_defs >>

\* Mutant: the KeyError of a missing description is recorded and the load
\* goes on.
TplDescription_goes_on ==
    /\ pc = "tpl_description"
    /\ pc' = "get_all_custom_defs"
    /\ IF HasKey(DESCRIPTION)
       THEN steps' = Append(steps, "tpl_description") /\ error' = error
       ELSE steps' = steps /\ error' = Exception("KeyError", DESCRIPTION)
    /\ UNCHANGED << input, files, fsChanges, version, relationship_types,
                    typeIdx, all_custom_defs, type_defs, loaderCalls,
                    localities, load, first_defs >>

\* self.description = self._tpl_description()
TplDescription ==
    /\ pc = "tpl_description"
    /\ IF HasKey(DESCRIPTION) THEN Return("tpl_description", "get_all_custom_defs")
       ELSE Raise(Exception("KeyError", DESCRIPTION)) /\ UNCHANGED steps
    /\ UNCHANGED << input, files, fsChanges, version, relationship_types,
                    typeIdx, all_custom_defs, type_defs, loaderCalls,
                    localities, load, first_defs >>

\* One iteration of the loop of _get_all_custom_defs, called from
\* _topology_template for the arguments of TopologyTemplate.
GetAllCustomDefs ==
    /\ pc = "get_all_custom_defs"
    /\ \E failAt \in 0..Len(tplImports) :
         LET type == types[typeIdx]
             r == GetCustomTypes(type, failAt)
         IN /\ loaderCalls' = loaderCalls \o r.calls
            /\ localities' = localities \o r.localities
            /\ IF r.error = NoError
               THEN /\ all_custom_defs' =
                         IF Keys(r.custom_defs) # {}
                         THEN Update(all_custom_defs, r.custom_defs)
                         ELSE all_custom_defs
                    /\ type_defs' = [ type_defs EXCEPT ![type] = r.custom_defs ]
                    /\ IF typeIdx < Len(types)
                       THEN /\ typeIdx' = typeIdx + 1
                            /\ UNCHANGED << pc, steps, error >>
                       ELSE /\ typeIdx' = typeIdx
                            /\ Return("get_all_custom_defs", "topology_template")
               ELSE /\ Raise(r.error)
                    /\ UNCHANGED << steps, typeIdx, all_custom_defs, type_defs >>
    /\ UNCHANGED << input, files, fsChanges, version, relationship_types,
                    load, first_defs >>

\* TopologyTemplate(...), the Topology Builder, and the four reads of its
\* result
TopologyTemplate ==
    /\ pc = "topology_template"
    /\ \E builds \in BOOLEAN :
         IF builds THEN Return("topology_template", "tosca_graph")
         ELSE Raise(Exception("TopologyError", "")) /\ UNCHANGED steps
    /\ UNCHANGED << input, files, fsChanges, version, relationship_types,
                    typeIdx, all_custom_defs, type_defs, loaderCalls,
                    localities, load, first_defs >>

\* self.graph = ToscaGraph(self.nodetemplates), the Graph Builder
ToscaGraph ==
    /\ pc = "tosca_graph"
    /\ \E builds \in BOOLEAN :
         IF builds THEN Return("tosca_graph", "done")
         ELSE Raise(Exception("GraphError", "")) /\ UNCHANGED steps
    /\ UNCHANGED << input, files, fsChanges, version, relationship_types,
                    typeIdx, all_custom_defs, type_defs, loaderCalls,
                    localities, load, first_defs >>

\* The environment creates or removes one file while the load runs.
FsChange ==
    /\ pc \notin { "done", "failed" }
    /\ fsChanges < MaxFsChanges
    /\ \E p \in FsPaths :
         files' = IF p \in files THEN files \ { p } ELSE files \cup { p }
    /\ fsChanges' = fsChanges + 1
    /\ UNCHANGED << input, pc, error, steps, version, relationship_types,
                    typeIdx, all_custom_defs, type_defs, loaderCalls,
                    localities, load, first_defs >>

\* A second ToscaTemplate(path, a_file) on the same input, after the first
\* returned: every attribute and local starts afresh.
Reload ==
    /\ pc = "done"
    /\ load = "first"
    /\ load' = "second"
    /\ first_defs' = all_custom_defs
    /\ pc' = "load_root"
    /\ error' = NoError
    /\ steps' = << >>
    /\ version' = ""
    /\ relationship_types' = EmptyDefs
    /\ typeIdx' = 1
    /\ all_custom_defs' = EmptyDefs
    /\ type_defs' = NoTypeDefs
    /\ loaderCalls' = << >>
    /\ localities' = << >>
    /\ UNCHANGED << input, files, fsChanges >>

\* ------------------------------------------------------------------- init
Fresh ==
    /\ load = "first"
    /\ pc = "load_root"
    /\ error = NoError
    /\ steps = << >>
    /\ version = ""
    /\ relationship_types = EmptyDefs
    /\ typeIdx = 1
    /\ all_custom_defs = EmptyDefs
    /\ type_defs = NoTypeDefs
    /\ loaderCalls = << >>
    /\ localities = << >>
    /\ first_defs = EmptyDefs
    /\ fsChanges = 0

\* Root documents of every key order, a local root, no imports.
InitFields ==
    /\ tplKeys \in KeyOrders
    /\ tplVersion \in Versions
    /\ tplImports = << >>
    /\ tplTypes \in RootTypeChoices
    /\ path_is_file = TRUE
    /\ files = { RootPath }

\* Well-formed root documents without inline types, with every import list,
\* on every file system, given as a file or as a URL. What os.path.isfile
\* says of the root's path is independent of the a_file argument: a root
\* opened as a file may be a pipe or a device, and a URL string may also name
\* a file relative to the working directory.
InitResolve ==
    /\ tplKeys = << DEFINITION_VERSION, DESCRIPTION >>
    /\ tplVersion = "tosca_simple_yaml_1_0"
    /\ tplImports \in ImportLists
    /\ tplTypes = [ s \in TypeSectionSet |-> {} ]
    /\ path_is_file \in BOOLEAN
    /\ files \in SUBSET FsPaths

\* Well-formed root documents with every choice of inline types and every
\* import list, given as a file, every path being a file.
InitMerge ==
    /\ tplKeys = << DEFINITION_VERSION, DESCRIPTION >>
    /\ tplVersion = "tosca_simple_yaml_1_0"
    /\ tplImports \in ImportLists
    /\ tplTypes \in RootTypeChoices
    /\ path_is_file = TRUE
    /\ files = FsPaths

Init == Fresh /\ (InitFields \/ InitResolve \/ InitMerge)

Next ==
    \/ LoadRoot
    \/ ValidateField
    \/ TplVersion
    \/ TplRelationshipTypes
    \/ TplDescription
    \/ GetAllCustomDefs
    \/ TopologyTemplate
    \/ ToscaGraph
    \/ FsChange

Spec == Init /\ [][Next]_vars

\* Two constructions in a row on an unchanging file system.
NextTwice ==
    \/ LoadRoot
    \/ ValidateField
    \/ TplVersion
    \/ TplRelationshipTypes
    \/ TplDescription
    \/ GetAllCustomDefs
    \/ TopologyTemplate
    \/ ToscaGraph
    \/ Reload

SpecTwice == Init /\ [][NextTwice]_vars

\* ----------------------------------------------------------- properties
ProgramOrder ==
    << "load_root", "validate_field", "tpl_version", "tpl_relationship_types",
       "tpl_description", "get_all_custom_defs", "topology_template",
       "tosca_graph" >>

Returned(step) == \E i \in 1..Len(steps) : steps[i] = step

\* _validate_field has run on the root document.
Validated == Returned("load_root") /\ pc # "validate_field"

UnknownAt(i) == TplNames[i] \notin SECTIONS
HasUnknown == \E i \in 1..Len(TplNames) : UnknownAt(i)
FirstUnknown ==
    TplNames[CHOOSE i \in 1..Len(TplNames) :
                 UnknownAt(i) /\ \A j \in 1..(i - 1) : ~UnknownAt(j)]

\* Calls of _get_custom_types that returned: the one of
\* _tpl_relationship_types is number 0, those of _get_all_custom_defs are
\* numbers 1 to 4.
MergesDone == IF Returned("get_all_custom_defs") THEN Len(types) ELSE typeIdx - 1

\* The loader calls of the k-th call of _get_custom_types.
Batch(k) == SubSeq(loaderCalls, k * Len(tplImports) + 1, (k + 1) * Len(tplImports))

\* The definitions a loader call's document holds for a name in a section.
Defines(call, section, n) == n \in DocTable(call.def_file, call.a_file, section)

\* The registry entry the precedence rule gives a name: the root's inline
\* definition, else that of the last import whose document defines it.
Precedence(section, calls, n) ==
    IF n \in tplTypes[section] THEN Def(RootPath, path_is_file, section, n)
    ELSE LET defining == { i \in 1..Len(calls) : Defines(calls[i], section, n) }
         IN IF defining = {} THEN NoDef
            ELSE LET last == CHOOSE i \in defining : \A j \in defining : j <= i
                 IN Def(calls[last].def_file, calls[last].a_file, section, n)

\* C1: every registry _get_custom_types returned holds, for every name, the
\* root's inline definition when the root defines the name in that section,
\* else the definition of the last import in declaration order whose document
\* defines it, and has no entry when neither does.
C1_MergePrecedence ==
    /\ Returned("tpl_relationship_types") =>
         \A n \in Names :
            relationship_types[n] = Precedence(RELATIONSHIP_TYPES, Batch(0), n)
    /\ \A k \in 1..MergesDone : \A n \in Names :
            type_defs[types[k]][n] = Precedence(types[k], Batch(k), n)

\* Two imports define the same name differently, the root does not define it,
\* and the registry holds the second import's definition.
C1_Witness ==
    /\ Len(tplImports) = 2
    /\ MergesDone >= 1
    /\ "X" \notin tplTypes[NODE_TYPES]
    /\ Defines(Batch(1)[1], NODE_TYPES, "X")
    /\ Defines(Batch(1)[2], NODE_TYPES, "X")
    /\ Batch(1)[1].def_file # Batch(1)[2].def_file
    /\ type_defs[NODE_TYPES]["X"].doc = Batch(1)[2].def_file

\* C2 (as claimed): when the template is given as a URL, no loader call is
\* made for an import that is an absolute path and no URL, nor for an import
\* after it, the load does not return a template, and an attempt to resolve
\* such an import ends in ImportError.
AbsoluteNonUrl(definition) == ~validate_url(definition) /\ isabs(definition)

C2_RemoteAbsoluteFails ==
    path_is_file = FALSE =>
       /\ \A i \in 1..Len(loaderCalls) : \A j \in 1..loaderCalls[i].idx :
             ~AbsoluteNonUrl(tplImports[j])
       /\ (\E j \in 1..Len(tplImports) : AbsoluteNonUrl(tplImports[j])) =>
             /\ pc # "done"
             /\ ~Returned("tpl_relationship_types")

\* C3 (as claimed): when the template is given as a file, every loader call
\* for an import follows the table: the string as given with is-local true
\* when it is a file; else the string joined to the root's directory with
\* is-local true when that is a file; else the string as given with is-local
\* false; and no ImportError is raised.
LocalTable(call) ==
    IF isfile(AsGiven(call.definition))
    THEN call.def_file = AsGiven(call.definition) /\ call.a_file = TRUE
    ELSE IF isfile(full_path(call.definition))
    THEN call.def_file = full_path(call.definition) /\ call.a_file = TRUE
    ELSE call.def_file = AsGiven(call.definition) /\ call.a_file = FALSE

C3_LocalDecisionTable ==
    [][ path_is_file = TRUE =>
          /\ \A i \in (Len(loaderCalls) + 1)..Len(loaderCalls') :
                LocalTable(loaderCalls'[i])
          /\ error'.kind # "ImportError" ]_vars

\* C4 (as claimed): when the template is given as a URL, every loader call for
\* an import has is-local false, and its location is the import string when
\* that is a valid URL and the join of the root's URL with it when it is a
\* relative string that is no URL.
C4_RemoteNeverLocal ==
    path_is_file = FALSE =>
       \A i \in 1..Len(loaderCalls) :
          LET call == loaderCalls[i]
          IN /\ call.a_file = FALSE
             /\ validate_url(call.definition) =>
                   call.def_file = AsGiven(call.definition)
             /\ (~validate_url(call.definition) /\ ~isabs(call.definition)) =>
                   call.def_file = join_url(call.definition)

\* C5 (as claimed): a root document with a key outside the section names fails
\* validation with UnknownFieldError naming the first such key.
C5_UnknownFieldAlways ==
    (Validated /\ HasUnknown) =>
       /\ pc = "failed"
       /\ error = Exception("UnknownFieldError", FirstUnknown)

\* C5 (amended): a root document whose version key is present with a valid
\* version and that has a key outside the section names fails validation with
\* UnknownFieldError naming the first such key in document order.
C5_UnknownFieldAfterVersion ==
    (Validated /\ HasUnknown /\ HasKey(DEFINITION_VERSION)
       /\ tplVersion \in VALID_TEMPLATE_VERSIONS) =>
       /\ pc = "failed"
       /\ error = Exception("UnknownFieldError", FirstUnknown)

\* Validation failed on a document with two unknown keys and named the first.
C5_Witness ==
    /\ Validated
    /\ HasKey(DEFINITION_VERSION)
    /\ Cardinality({ i \in 1..Len(TplNames) : UnknownAt(i) }) = 2
    /\ error.kind = "UnknownFieldError"
    /\ error.what = FirstUnknown

\* C6: a root document without the version key fails validation with
\* MissingRequiredFieldError naming the version key, and one whose version is
\* not a valid version fails with InvalidTemplateVersion naming the value and
\* the valid versions, whatever other keys the document has.
C6_VersionCheck ==
    Validated =>
       /\ ~HasKey(DEFINITION_VERSION) =>
             /\ pc = "failed"
             /\ error = Exception("MissingRequiredFieldError", DEFINITION_VERSION)
       /\ (HasKey(DEFINITION_VERSION) /\ tplVersion \notin VALID_TEMPLATE_VERSIONS) =>
             /\ pc = "failed"
             /\ error = [ kind |-> "InvalidTemplateVersion", what |-> tplVersion,
                          valid_versions |-> VALID_TEMPLATE_VERSIONS ]

\* Validation rejected the version of a document that also has an unknown key
\* before its version key.
C6_Witness ==
    /\ Validated
    /\ HasUnknown
    /\ Len(TplNames) >= 2
    /\ TplNames[1] \notin SECTIONS
    /\ TplNames[2] = DEFINITION_VERSION
    /\ error.kind = "InvalidTemplateVersion"

\* C7: the steps of a load return in the fixed order; no import is loaded
\* before field validation returned; the Topology Builder is invoked only
\* after every earlier step returned and the Graph Builder only after the
\* Topology Builder returned; a failed load runs no further step and a
\* template is returned only when every step returned.
ProgramStep ==
    \/ LoadRoot
    \/ ValidateField
    \/ TplVersion
    \/ TplRelationshipTypes
    \/ TplDescription
    \/ GetAllCustomDefs
    \/ TopologyTemplate
    \/ ToscaGraph

C7_StepOrder ==
    /\ Len(steps) <= Len(ProgramOrder)
    /\ steps = SubSeq(ProgramOrder, 1, Len(steps))
    /\ loaderCalls # << >> => Returned("validate_field")
    /\ (pc = "topology_template" \/ error.kind = "TopologyError") =>
          steps = SubSeq(ProgramOrder, 1, 6)
    /\ (pc = "tosca_graph" \/ error.kind = "GraphError") =>
          steps = SubSeq(ProgramOrder, 1, 7)
    /\ pc = "failed" => (error # NoError /\ ~ENABLED ProgramStep)
    /\ pc = "done" <=> steps = ProgramOrder
    /\ pc = "done" => error = NoError

\* The description step failed and nothing was built.
C7_Witness ==
    /\ pc = "failed"
    /\ error.kind = "KeyError"
    /\ steps = SubSeq(ProgramOrder, 1, 4)

\* C8 (as claimed): every call of _get_custom_types within one load resolves
\* its imports with the locality the is-file flag of the construction gave.
C8_LocalityFixed ==
    \A i \in 1..Len(localities) : localities[i] = path_is_file

FourTypes == << NODE_TYPES, CAPABILITY_TYPES, RELATIONSHIP_TYPES, DATATYPE_DEFINITIONS >>

C10_AggregateUnion ==
    Returned("get_all_custom_defs") =>
       /\ Keys(all_custom_defs) = UNION { Keys(type_defs[FourTypes[k]]) : k \in 1..4 }
       /\ \A n \in Keys(all_custom_defs) :
             /\ all_custom_defs[n].section # ARTIFACT_TYPES
             /\ LET having == { k \in 1..4 : n \in Keys(type_defs[FourTypes[k]]) }
                    last == CHOOSE k \in having : \A j \in having : j <= k
                IN all_custom_defs[n] = type_defs[FourTypes[last]][n]

\* A name defined in the capability and the relationship registries has the
\* relationship definition, and an artifact-only name is absent.
C10_Witness ==
    /\ Returned("get_all_custom_defs")
    /\ "X" \in Keys(type_defs[CAPABILITY_TYPES])
    /\ "X" \in Keys(type_defs[RELATIONSHIP_TYPES])
    /\ "X" \notin Keys(type_defs[DATATYPE_DEFINITIONS])
    /\ all_custom_defs["X"].section = RELATIONSHIP_TYPES
    /\ \E i \in 1..Len(loaderCalls) : Defines(loaderCalls[i], ARTIFACT_TYPES, "Z")
    /\ "Z" \notin Keys(all_custom_defs)

====
